---- MODULE Spec2Model ----
(***************************************************************************)
(* Model of the Excel field-extraction and gender-split tool.              *)
(*                                                                         *)
(* Two programs of the repository are modelled side by side:               *)
(*   "app"  src/streamlit_app.py   (the Streamlit front end)               *)
(*   "cli"  src/unnamed/part_000   (extract_and_split_template.py)         *)
(* The variable `variant` says which of the two is running.                *)
(*                                                                         *)
(* A Python str is a sequence of one-character strings.  A CJK character   *)
(* is written as the token "Uxxxx" of its code point, LF is the line feed. *)
(* A Python value is a record [kind, s, n]: kind "str" carries the         *)
(* characters in s, kind "int" the number in n, kind "none" is None, kind  *)
(* "nan" is the float NaN pandas uses for a missing cell, kind "raise" is  *)
(* an exception that left the function (its type name in s).               *)
(***************************************************************************)
EXTENDS Integers, Sequences, FiniteSets, TLC

VARIABLES variant, pc, id_number, gender, doc_type,
          raw, max_rows, hdr, tpl, df_src, df_all, male_df, female_df

vars == <<variant, pc, id_number, gender, doc_type,
          raw, max_rows, hdr, tpl, df_src, df_all, male_df, female_df>>

Variants == {"app", "cli"}

(***************************************************************************)
(* Characters                                                              *)
(***************************************************************************)
Digits == {"0", "1", "2", "3", "4", "5", "6", "7", "8", "9"}

Letters ==
    {"A", "B", "C", "D", "E", "F", "G", "H", "I", "J", "K", "L", "M",
     "N", "O", "P", "Q", "R", "S", "T", "U", "V", "W", "X", "Y", "Z",
     "a", "b", "c", "d", "e", "f", "g", "h", "i", "j", "k", "l", "m",
     "n", "o", "p", "q", "r", "s", "t", "u", "v", "w", "x", "y", "z"}

\* str.strip() with no argument removes leading and trailing whitespace
Whitespace == {" ", "LF", "TAB"}

\* the characters of the range [一-龥] that occur in the program and its inputs:
\* 姓 名 证 件 号 身 份 手 机 电 话 性 别 男 女 类 型 护 照 港 澳 台 通 行 码
\* 参 检 人 全 称 所 属 组 织 部 门 单 位 或 就 业 形 态 体 卡 张 三 李
CJK ==
    {"U59D3", "U540D", "U8BC1", "U4EF6", "U53F7", "U8EAB", "U4EFD",
     "U624B", "U673A", "U7535", "U8BDD", "U6027", "U522B", "U7537",
     "U5973", "U7C7B", "U578B", "U62A4", "U7167", "U6E2F", "U6FB3",
     "U53F0", "U901A", "U884C", "U7801",
     "U53C2", "U68C0", "U4EBA", "U5168", "U79F0", "U6240", "U5C5E",
     "U7EC4", "U7EC7", "U90E8", "U95E8", "U5355", "U4F4D", "U6216",
     "U5C31", "U4E1A", "U5F62", "U6001", "U4F53", "U5361",
     "U5F20", "U4E09", "U674E"}

\* int(c) of a one-character string: its value for a decimal digit
IntOf ==
    [c \in Digits |->
        CASE c = "0" -> 0 [] c = "1" -> 1 [] c = "2" -> 2 [] c = "3" -> 3
          [] c = "4" -> 4 [] c = "5" -> 5 [] c = "6" -> 6 [] c = "7" -> 7
          [] c = "8" -> 8 [] c = "9" -> 9]

(***************************************************************************)
(* Python values                                                           *)
(***************************************************************************)
Str(s) == [kind |-> "str", s |-> s, n |-> 0]
None == [kind |-> "none", s |-> <<>>, n |-> 0]
NaN == [kind |-> "nan", s |-> <<>>, n |-> 0]
Num(k) == [kind |-> "int", s |-> <<>>, n |-> k]
Raised(e) == [kind |-> "raise", s |-> <<e>>, n |-> 0]
Pending == [kind |-> "pending", s |-> <<>>, n |-> 0]

\* isinstance(v, str)
IsStr(v) == v.kind = "str"

\* bool(v): None, 0 and '' are false, everything else (NaN included) is true
Truthy(v) ==
    CASE v.kind = "none" -> FALSE
      [] v.kind = "int" -> v.n # 0
      [] v.kind = "str" -> v.s # <<>>
      [] OTHER -> TRUE

\* the labels the classifiers return
Empty == <<>>
Male == <<"U7537">>
Female == <<"U5973">>
NationalID == <<"U8EAB", "U4EFD", "U8BC1">>
Passport == <<"U62A4", "U7167">>
TravelPermit == <<"U6E2F", "U6FB3", "U53F0", "U901A", "U884C", "U8BC1">>

(***************************************************************************)
(* String helpers                                                          *)
(***************************************************************************)
RECURSIVE LStrip(_)
LStrip(s) ==
    IF s # <<>> /\ Head(s) \in Whitespace THEN LStrip(Tail(s)) ELSE s

RECURSIVE RStrip(_)
RStrip(s) ==
    IF s # <<>> /\ s[Len(s)] \in Whitespace
    THEN RStrip(SubSeq(s, 1, Len(s) - 1))
    ELSE s

\* str.strip()
Strip(s) == RStrip(LStrip(s))

\* every character of s[a..b] is in the class cls
AllIn(s, a, b, cls) == \A i \in a..b : s[i] \in cls

\* str.isdigit(): non-empty and all digits
IsDigitStr(s) == s # <<>> /\ AllIn(s, 1, Len(s), Digits)

\* the regex "$": at the end of the string, or just before a final line feed
AtEnd(s, i) == i = Len(s) + 1 \/ (i = Len(s) /\ s[i] = "LF")

\* re.fullmatch: the end is the end of the string
AtFullEnd(s, i) == i = Len(s) + 1

(***************************************************************************)
(* The regular expressions of the program.  full = TRUE is re.fullmatch,   *)
(* full = FALSE is re.match / Series.str.match of a pattern written        *)
(* between "^" and "$".                                                    *)
(***************************************************************************)
End(s, i, full) == IF full THEN AtFullEnd(s, i) ELSE AtEnd(s, i)

\* \d{15}
MatchDigits15(s, full) ==
    /\ Len(s) >= 15
    /\ AllIn(s, 1, 15, Digits)
    /\ End(s, 16, full)

\* \d{17}[\dXx]
MatchID18(s, full) ==
    /\ Len(s) >= 18
    /\ AllIn(s, 1, 17, Digits)
    /\ s[18] \in Digits \cup {"X", "x"}
    /\ End(s, 19, full)

\* first[0-9]{lo,hi} for a class `first` of the leading character
MatchLeadDigits(s, first, lo, hi, full) ==
    /\ Len(s) >= 1
    /\ s[1] \in first
    /\ \E k \in lo..hi :
          /\ Len(s) >= 1 + k
          /\ AllIn(s, 2, 1 + k, Digits)
          /\ End(s, k + 2, full)

\* [A-Za-z][0-9]{7,8}
MatchPassport(s, full) == MatchLeadDigits(s, Letters, 7, 8, full)

\* [HMhm][0-9]{7,9}
MatchHM(s, full) == MatchLeadDigits(s, {"H", "M", "h", "m"}, 7, 9, full)

\* ^1[3-9]\d{9}$
MatchPhone(s) ==
    /\ Len(s) >= 11
    /\ s[1] = "1"
    /\ s[2] \in {"3", "4", "5", "6", "7", "8", "9"}
    /\ AllIn(s, 3, 11, Digits)
    /\ AtEnd(s, 12)

\* ^[一-龥]{2,4}$
MatchName(s) ==
    \E k \in 2..4 :
        /\ Len(s) >= k
        /\ AllIn(s, 1, k, CJK)
        /\ AtEnd(s, k + 1)

(***************************************************************************)
(* IdentifierClassifier                                                    *)
(***************************************************************************)
\* int(c) for a one-character str c: the number, or ValueError
int(c) == IF c \in Digits THEN Num(IntOf[c]) ELSE Raised("ValueError")

\* '男' if sex_digit % 2 else '女'
ParityLabel(k) == IF k % 2 # 0 THEN Str(Male) ELSE Str(Female)

\* a parse_gender that reads the last character instead of the one before it
parse_gender_last(v) ==
    IF ~IsStr(v) \/ Len(v.s) < 2
    THEN Str(Empty)
    ELSE LET d == int(v.s[Len(v.s)])
         IN  IF d.kind = "raise" THEN Str(Empty) ELSE ParityLabel(d.n)

\* streamlit_app.py: except ValueError
parse_gender_app(v) ==
    IF ~IsStr(v) \/ Len(v.s) < 2
    THEN Str(Empty)
    ELSE LET d == int(v.s[Len(v.s) - 1])
         IN  IF d.kind = "raise"
             THEN IF d.s = <<"ValueError">> THEN Str(Empty) ELSE d
             ELSE ParityLabel(d.n)

\* part_000: except Exception
parse_gender_cli(v) ==
    IF ~IsStr(v) \/ Len(v.s) < 2
    THEN Str(Empty)
    ELSE LET d == int(v.s[Len(v.s) - 1])
         IN  IF d.kind = "raise" THEN Str(Empty) ELSE ParityLabel(d.n)

\* the rules with the travel permit tried before the passport
DocTypeRules_permit_first(s, full) ==
    IF MatchDigits15(s, full) \/ MatchID18(s, full)
    THEN Str(NationalID)
    ELSE IF MatchHM(s, full) \/ (IsDigitStr(s) /\ Len(s) \in {8, 9, 10})
    THEN Str(TravelPermit)
    ELSE IF MatchPassport(s, full)
    THEN Str(Passport)
    ELSE Str(Empty)

\* the three rules, tried in this order; full as in the variant's regex calls
DocTypeRules(s, full) ==
    IF MatchDigits15(s, full) \/ MatchID18(s, full)
    THEN Str(NationalID)
    ELSE IF MatchPassport(s, full)
    THEN Str(Passport)
    ELSE IF MatchHM(s, full) \/ (IsDigitStr(s) /\ Len(s) \in {8, 9, 10})
    THEN Str(TravelPermit)
    ELSE Str(Empty)

\* streamlit_app.py: s = (id_number or '').strip(), then re.fullmatch
parse_doc_type_app(v) ==
    LET x == IF Truthy(v) THEN v ELSE Str(Empty)
    IN  IF ~IsStr(x)
        THEN Raised("AttributeError")
        ELSE DocTypeRules(Strip(x.s), TRUE)

\* part_000: isinstance guard, s = id_number.strip(), then re.match(^...$)
parse_doc_type_cli(v) ==
    IF ~IsStr(v)
    THEN Str(Empty)
    ELSE DocTypeRules(Strip(v.s), FALSE)

parse_gender(var, v) ==
    IF var = "app" THEN parse_gender_app(v) ELSE parse_gender_cli(v)

parse_doc_type(var, v) ==
    IF var = "app" THEN parse_doc_type_app(v) ELSE parse_doc_type_cli(v)

(***************************************************************************)
(* Classification of one identifier value: the value is chosen at the      *)
(* start, then each classifier is called on it once.                        *)
(***************************************************************************)
\* longest run of digits in an enumerated identifier (18 is a national id)
MaxDigits == 18

RECURSIVE Rep(_, _)
Rep(c, k) == IF k = 0 THEN <<>> ELSE <<c>> \o Rep(c, k - 1)

\* what an enumerated identifier starts and ends with
LeadPool == {<<>>, <<"H">>, <<"m">>, <<"G">>, <<" ">>, <<"-">>}
TailPool ==
    {<<>>, <<"7">>, <<"2", "8">>, <<"X">>, <<"3", "x">>, <<"a", "1">>,
     <<"4", " ">>, <<" ", "5">>, <<"LF">>}

IdStrings ==
    {lead \o Rep("1", k) \o tail :
        lead \in LeadPool, k \in 0..MaxDigits, tail \in TailPool}

\* None, the numbers 0 and 5, and NaN
NonStrValues == {None, Num(0), Num(5), NaN}

IdValues == {Str(s) : s \in IdStrings} \cup NonStrValues

\* an empty DataFrame and the values of the variables a run does not use
NoFrame == [cols |-> <<>>, rows |-> <<>>]
NoTemplate == [given |-> FALSE, header |-> <<>>]

InitClassify ==
    /\ variant \in Variants
    /\ pc = "classify"
    /\ id_number \in IdValues
    /\ gender = Pending
    /\ doc_type = Pending
    /\ raw = <<>>
    /\ max_rows = 0
    /\ hdr = 0
    /\ tpl = NoTemplate
    /\ df_src = NoFrame
    /\ df_all = NoFrame
    /\ male_df = NoFrame
    /\ female_df = NoFrame

CallParseGender ==
    /\ pc = "classify"
    /\ gender = Pending
    /\ gender' = parse_gender(variant, id_number)
    /\ UNCHANGED <<variant, pc, id_number, doc_type, raw, max_rows, hdr,
                   tpl, df_src, df_all, male_df, female_df>>

CallParseDocType ==
    /\ pc = "classify"
    /\ doc_type = Pending
    /\ doc_type' = parse_doc_type(variant, id_number)
    /\ UNCHANGED <<variant, pc, id_number, gender, raw, max_rows, hdr,
                   tpl, df_src, df_all, male_df, female_df>>

NextClassify == CallParseGender \/ CallParseDocType

SpecClassify == InitClassify /\ [][NextClassify]_vars

(***************************************************************************)
(* HeaderLocator.  A raw table (read with header=None, dtype=str) is a     *)
(* sequence of rows, a row a sequence of cells, a cell a str or NaN.       *)
(***************************************************************************)
\* '姓名', '证件号', '身份证', '手机号', '电话'
keywords ==
    << <<"U59D3", "U540D">>,
       <<"U8BC1", "U4EF6", "U53F7">>,
       <<"U8EAB", "U4EFD", "U8BC1">>,
       <<"U624B", "U673A", "U53F7">>,
       <<"U7535", "U8BDD">> >>

\* the default of the parameter max_rows
DefaultMaxRows == 5

\* Series.fillna(''): a missing cell becomes the empty string
FillNa(cell) == IF cell.kind = "nan" THEN <<>> ELSE cell.s

\* ''.join(row.fillna(''))
RECURSIVE Join(_)
Join(row) == IF row = <<>> THEN <<>> ELSE FillNa(Head(row)) \o Join(Tail(row))

\* k in s
Contains(s, k) ==
    \E i \in 0..(Len(s) - Len(k)) : SubSeq(s, i + 1, i + Len(k)) = k

\* any(k in row_str for k in keywords)
HasKeyword(row) ==
    LET row_str == Join(row)
    IN  \E j \in 1..Len(keywords) : Contains(row_str, keywords[j])

Min2(a, b) == IF a < b THEN a ELSE b

\* a scan that forgets the limit max_rows
RECURSIVE ScanAll(_, _, _)
ScanAll(rows, i, n) ==
    IF i >= Len(rows) THEN 0
    ELSE IF HasKeyword(rows[i + 1]) THEN i
    ELSE ScanAll(rows, i + 1, n)

\* for i in range(n): if the row has a keyword: return i;  return 0
RECURSIVE Scan(_, _, _)
Scan(rows, i, n) ==
    IF i >= n THEN 0
    ELSE IF HasKeyword(rows[i + 1]) THEN i
    ELSE Scan(rows, i + 1, n)

detect_header_row(rows, limit) == Scan(rows, 0, Min2(limit, Len(rows)))

(***************************************************************************)
(* Header detection on its own: a raw table and a limit are chosen at the  *)
(* start, then detect_header_row is called.                                *)
(***************************************************************************)
\* most rows of an enumerated raw table
MaxRawRows == 6

SeqsUpTo(S, k) == UNION {[1..j -> S] : j \in 0..k}

\* rows of two cells: blank; '名' | '姓' (no keyword); '姓' | '名' (a keyword
\* only once joined); 'x电话' | missing (a keyword inside a cell)
RawRowPool ==
    { <<NaN, NaN>>,
      <<Str(<<"U540D">>), Str(<<"U59D3">>)>>,
      <<Str(<<"U59D3">>), Str(<<"U540D">>)>>,
      <<Str(<<"x", "U7535", "U8BDD">>), NaN>> }

LimitPool == {0, 3, DefaultMaxRows}

InitHeader ==
    /\ variant \in Variants
    /\ pc = "header"
    /\ raw \in SeqsUpTo(RawRowPool, MaxRawRows)
    /\ max_rows \in LimitPool
    /\ hdr = 0
    /\ id_number = None
    /\ gender = Pending
    /\ doc_type = Pending
    /\ tpl = NoTemplate
    /\ df_src = NoFrame
    /\ df_all = NoFrame
    /\ male_df = NoFrame
    /\ female_df = NoFrame

CallDetectHeaderRow ==
    /\ pc = "header"
    /\ hdr' = detect_header_row(raw, max_rows)
    /\ pc' = "header_done"
    /\ UNCHANGED <<variant, id_number, gender, doc_type, raw, max_rows,
                   tpl, df_src, df_all, male_df, female_df>>

NextHeader == CallDetectHeaderRow

SpecHeader == InitHeader /\ [][NextHeader]_vars

(***************************************************************************)
(* DataFrames.  A frame is [cols, rows]: cols the column labels in order,  *)
(* rows a sequence of [idx, vals] with idx the row's index label and vals  *)
(* a function from the column labels to cells.  A Series is a sequence of  *)
(* cells in row order.                                                     *)
(***************************************************************************)
Range(f) == {f[i] : i \in DOMAIN f}

DigitChar ==
    [k \in 0..9 |->
        CASE k = 0 -> "0" [] k = 1 -> "1" [] k = 2 -> "2" [] k = 3 -> "3"
          [] k = 4 -> "4" [] k = 5 -> "5" [] k = 6 -> "6" [] k = 7 -> "7"
          [] k = 8 -> "8" [] k = 9 -> "9"]

\* the label pandas gives a header cell that is missing: 'Unnamed: j'
Unnamed(j) ==
    <<"U", "n", "n", "a", "m", "e", "d", ":", " ">> \o <<DigitChar[j]>>

\* the labels read_excel makes of a header row: a missing cell is
\* 'Unnamed: j', a repeated label gets the suffix '.k'
ColumnNames(header) ==
    LET base(j) == IF header[j].kind = "nan" THEN Unnamed(j - 1) ELSE header[j].s
        dups(j) == Cardinality({i \in 1..(j - 1) : base(i) = base(j)})
    IN  [j \in 1..Len(header) |->
            IF dups(j) = 0 THEN base(j)
            ELSE base(j) \o <<".", DigitChar[dups(j)]>>]

\* pd.read_excel(path, header=h, dtype=str) of the sheet whose rows are `rows`:
\* row h is the header, the rows after it are the data, blank cells are NaN
read_excel(rows, h) ==
    IF Len(rows) <= h
    THEN NoFrame
    ELSE LET names == ColumnNames(rows[h + 1])
             pos(c) == CHOOSE j \in 1..Len(names) : names[j] = c
         IN  [cols |-> names,
              rows |-> [i \in 1..(Len(rows) - h - 1) |->
                          [idx |-> i - 1,
                           vals |-> [c \in Range(names) |->
                                        rows[h + 1 + i][pos(c)]]]]]

\* raw = read_excel(header=None); hdr = detect_header_row(raw);
\* read_excel(header=hdr)
read_source(rows) == read_excel(rows, detect_header_row(rows, DefaultMaxRows))

\* df[c]
Col(df, c) == [i \in 1..Len(df.rows) |-> df.rows[i].vals[c]]

\* astype(str) of one cell: the float NaN becomes the text 'nan'
AsStr(cell) == IF cell.kind = "nan" THEN Str(<<"n", "a", "n">>) ELSE cell

\* Series.astype(str)
astype_str(series) == [i \in DOMAIN series |-> AsStr(series[i])]

\* pd.Series([''] * len(df))
EmptySeries(df) == [i \in 1..Len(df.rows) |-> Str(Empty)]

\* Series.eq('').all()
AllEmpty(series) == \A i \in DOMAIN series : series[i] = Str(Empty)

\* Series.dropna()
DropNa(series) == SelectSeq(series, LAMBDA c : c.kind # "nan")

\* no column: None
NoCol == <<>>

\* next((a for a in aliases if a in df.columns), None)
RECURSIVE FirstAlias(_, _)
FirstAlias(aliases, cols) ==
    IF aliases = <<>> THEN NoCol
    ELSE IF Head(aliases) \in Range(cols) THEN Head(aliases)
    ELSE FirstAlias(Tail(aliases), cols)

\* df[col].astype(str) if col else pd.Series([''] * len(df))
ByName(df, aliases) ==
    LET col == FirstAlias(aliases, df.cols)
    IN  IF col # NoCol THEN astype_str(Col(df, col)) ELSE EmptySeries(df)

\* the compiled patterns handed to detect_column_by_pattern, matched with
\* Series.str.match (re.match):
\*   "ID15|ID18"  ^\d{15}$|^\d{17}[\dXx]$     "ID18"  ^\d{17}[\dXx]$
\*   "PHONE"      ^1[3-9]\d{9}$               "NAME"  ^[一-龥]{2,4}$
StrMatch(pattern, s) ==
    CASE pattern = "ID15|ID18" -> MatchDigits15(s, FALSE) \/ MatchID18(s, FALSE)
      [] pattern = "ID18" -> MatchID18(s, FALSE)
      [] pattern = "PHONE" -> MatchPhone(s)
      [] pattern = "NAME" -> MatchName(s)

\* a test that wants more than the threshold
Qualifies_strict(df, c, pattern) ==
    LET s == astype_str(DropNa(Col(df, c)))
        match_count == Cardinality({i \in DOMAIN s : StrMatch(pattern, s[i].s)})
    IN  Len(s) # 0 /\ 2 * match_count > Len(s)

\* len(s) and (s.str.match(regex).sum() / len(s) >= threshold), threshold 0.5
Qualifies(df, c, pattern) ==
    LET s == astype_str(DropNa(Col(df, c)))
        match_count == Cardinality({i \in DOMAIN s : StrMatch(pattern, s[i].s)})
    IN  Len(s) # 0 /\ 2 * match_count >= Len(s)

\* for col in df.columns: if it qualifies: return col;  return None
RECURSIVE FirstQualifying(_, _, _)
FirstQualifying(df, cols, pattern) ==
    IF cols = <<>> THEN NoCol
    ELSE IF Qualifies(df, Head(cols), pattern) THEN Head(cols)
    ELSE FirstQualifying(df, Tail(cols), pattern)

detect_column_by_pattern(df, pattern) == FirstQualifying(df, df.cols, pattern)

\* the series of a field: by name, and by pattern when that is all ''
Resolve(df, aliases, pattern) ==
    LET named == ByName(df, aliases)
    IN  IF AllEmpty(named)
        THEN LET c == detect_column_by_pattern(df, pattern)
             IN  IF c # NoCol THEN astype_str(Col(df, c)) ELSE named
        ELSE named

(***************************************************************************)
(* Extractor                                                               *)
(***************************************************************************)
\* '姓名'
F_Name == <<"U59D3", "U540D">>

\* '证件号'
F_Id == <<"U8BC1", "U4EF6", "U53F7">>

\* '手机号'
F_Phone == <<"U624B", "U673A", "U53F7">>

\* '所属组织/部门'
F_Org == <<"U6240", "U5C5E", "U7EC4", "U7EC7", "/", "U90E8", "U95E8">>

\* '体检卡号'
F_Card == <<"U4F53", "U68C0", "U5361", "U53F7">>

\* '证件类型'
F_DocType == <<"U8BC1", "U4EF6", "U7C7B", "U578B">>

\* '性别'
F_Gender == <<"U6027", "U522B">>

\* streamlit_app.py mapping['姓名']
mapping_name ==
    << <<"U59D3", "U540D">>,
       <<"n", "a", "m", "e">>,
       <<"N", "a", "m", "e">>,
       <<"U53C2", "U68C0", "U4EBA">> >>

\* streamlit_app.py mapping['证件号']
mapping_id ==
    << <<"U8BC1", "U4EF6", "U53F7">>,
       <<"U8EAB", "U4EFD", "U8BC1", "U53F7">>,
       <<"U8EAB", "U4EFD", "U8BC1", "U53F7", "U7801">>,
       <<"I", "D", "N", "u", "m", "b", "e", "r">> >>

\* streamlit_app.py mapping['手机号']
mapping_phone ==
    << <<"U624B", "U673A", "U53F7">>,
       <<"U7535", "U8BDD">>,
       <<"U7535", "U8BDD", "U53F7", "U7801">>,
       <<"m", "o", "b", "i", "l", "e">>,
       <<"M", "o", "b", "i", "l", "e">> >>

\* streamlit_app.py mapping['所属组织/部门']
mapping_org ==
    << <<"U6240", "U5C5E", "U7EC4", "U7EC7", "/", "U90E8", "U95E8">>,
       <<"U90E8", "U95E8">>,
       <<"U7EC4", "U7EC7">>,
       <<"U7EC4", "U7EC7", "/", "U90E8", "U95E8">>,
       <<"U5355", "U4F4D">>,
       <<"U5355", "U4F4D", "U6216", "U5C31", "U4E1A", "U5F62", "U6001">> >>

\* streamlit_app.py mapping['体检卡号']
mapping_card ==
    << <<"U4F53", "U68C0", "U5361", "U53F7">>,
       <<"U5361", "U53F7">> >>

\* part_000 name_map['姓名']
name_map_name ==
    << <<"U59D3", "U540D">>,
       <<"n", "a", "m", "e">>,
       <<"N", "a", "m", "e">>,
       <<"U53C2", "U68C0", "U4EBA">>,
       <<"U59D3", "U540D", "(", "U5168", "U79F0", ")">> >>

\* part_000 name_map['证件号']
name_map_id ==
    << <<"U8BC1", "U4EF6", "U53F7">>,
       <<"U8EAB", "U4EFD", "U8BC1", "U53F7">>,
       <<"I", "D", "N", "u", "m", "b", "e", "r">> >>

\* part_000 name_map['手机号']
name_map_phone ==
    << <<"U624B", "U673A", "U53F7">>,
       <<"U7535", "U8BDD">>,
       <<"m", "o", "b", "i", "l", "e">>,
       <<"M", "o", "b", "i", "l", "e">> >>

\* DEFAULT_COLS
DEFAULT_COLS == <<F_Name, F_DocType, F_Id, F_Phone, F_Org, F_Card>>

\* df.drop(columns=[c for c in df.columns if c.strip() == '性别'])
DropGenderColumns(df) ==
    LET keep == SelectSeq(df.cols, LAMBDA c : Strip(c) # F_Gender)
    IN  [cols |-> keep,
         rows |-> [i \in 1..Len(df.rows) |->
                     [idx |-> df.rows[i].idx,
                      vals |-> [c \in Range(keep) |-> df.rows[i].vals[c]]]]]

\* streamlit_app.py extract_fields
extract_fields_app(df0) ==
    LET df == DropGenderColumns(df0)
        name == Resolve(df, mapping_name, "NAME")
        id == Resolve(df, mapping_id, "ID15|ID18")
        phone == Resolve(df, mapping_phone, "PHONE")
        org == ByName(df, mapping_org)
        card == ByName(df, mapping_card)
    IN  [cols |-> <<F_Name, F_Id, F_Phone, F_Org, F_Card, F_DocType, F_Gender>>,
         rows |-> [i \in 1..Len(df.rows) |->
                     [idx |-> df.rows[i].idx,
                      vals |-> (F_Name :> name[i]) @@ (F_Id :> id[i])
                                 @@ (F_Phone :> phone[i]) @@ (F_Org :> org[i])
                                 @@ (F_Card :> card[i])
                                 @@ (F_DocType :> parse_doc_type_app(id[i]))
                                 @@ (F_Gender :> parse_gender_app(id[i]))]]]

\* an extract_fields that keeps the source's own '性别' column when there is one
extract_fields_cli_own_gender(df) ==
    LET name == Resolve(df, name_map_name, "NAME")
        id == Resolve(df, name_map_id, "ID18")
        phone == Resolve(df, name_map_phone, "PHONE")
        own == F_Gender \in Range(df.cols)
    IN  [cols |-> <<F_Name, F_Id, F_Phone, F_DocType, F_Gender>>,
         rows |-> [i \in 1..Len(df.rows) |->
                     [idx |-> df.rows[i].idx,
                      vals |-> (F_Name :> name[i]) @@ (F_Id :> id[i])
                                 @@ (F_Phone :> phone[i])
                                 @@ (F_DocType :> parse_doc_type_cli(id[i]))
                                 @@ (F_Gender :>
                                       IF own THEN AsStr(df.rows[i].vals[F_Gender])
                                       ELSE parse_gender_cli(id[i]))]]]

\* part_000 extract_fields
extract_fields_cli(df) ==
    LET name == Resolve(df, name_map_name, "NAME")
        id == Resolve(df, name_map_id, "ID18")
        phone == Resolve(df, name_map_phone, "PHONE")
    IN  [cols |-> <<F_Name, F_Id, F_Phone, F_DocType, F_Gender>>,
         rows |-> [i \in 1..Len(df.rows) |->
                     [idx |-> df.rows[i].idx,
                      vals |-> (F_Name :> name[i]) @@ (F_Id :> id[i])
                                 @@ (F_Phone :> phone[i])
                                 @@ (F_DocType :> parse_doc_type_cli(id[i]))
                                 @@ (F_Gender :> parse_gender_cli(id[i]))]]]

extract_fields(var, df) ==
    IF var = "app" THEN extract_fields_app(df) ELSE extract_fields_cli(df)

\* an exception left one of the classifier calls of Series.apply
ApplyRaised(df) ==
    \E i \in 1..Len(df.rows) : \E c \in Range(df.cols) :
        df.rows[i].vals[c].kind = "raise"

(***************************************************************************)
(* Partitioner / Reorderer                                                 *)
(***************************************************************************)
\* a selection that also takes the rows without gender
SelectGender_or_empty(df, label) ==
    [cols |-> df.cols,
     rows |-> SelectSeq(df.rows, LAMBDA r : r.vals[F_Gender] \in {Str(label), Str(Empty)})]

\* df[df['性别'] == label]
SelectGender(df, label) ==
    [cols |-> df.cols,
     rows |-> SelectSeq(df.rows, LAMBDA r : r.vals[F_Gender] = Str(label))]

\* df.drop(columns=['性别'])
DropGender(df) ==
    LET keep == SelectSeq(df.cols, LAMBDA c : c # F_Gender)
    IN  [cols |-> keep,
         rows |-> [i \in 1..Len(df.rows) |->
                     [idx |-> df.rows[i].idx,
                      vals |-> [c \in Range(keep) |-> df.rows[i].vals[c]]]]]

\* a reindex without fill_value: a new column is NaN
reorder_columns_nan(df, cols_order) ==
    [cols |-> cols_order,
     rows |-> [i \in 1..Len(df.rows) |->
                 [idx |-> df.rows[i].idx,
                  vals |-> [c \in Range(cols_order) |->
                               IF c \in Range(df.cols)
                               THEN df.rows[i].vals[c]
                               ELSE NaN]]]]

\* df.reindex(columns=cols_order, fill_value='')
reorder_columns(df, cols_order) ==
    [cols |-> cols_order,
     rows |-> [i \in 1..Len(df.rows) |->
                 [idx |-> df.rows[i].idx,
                  vals |-> [c \in Range(cols_order) |->
                               IF c \in Range(df.cols)
                               THEN df.rows[i].vals[c]
                               ELSE Str(Empty)]]]]

\* pd.read_excel(path, nrows=0).columns: the labels of the template's header
read_template_columns(template) == ColumnNames(template.header)

\* streamlit_app.py: the template's columns, else DEFAULT_COLS
split_app(all, template, label) ==
    IF template.given
    THEN reorder_columns(SelectGender(all, label), read_template_columns(template))
    ELSE reorder_columns(SelectGender(all, label), DEFAULT_COLS)

\* part_000 main: the gender column is dropped, then the template's columns
\* if there is a template
split_cli(all, template, label) ==
    LET part == DropGender(SelectGender(all, label))
    IN  IF template.given
        THEN reorder_columns(part, read_template_columns(template))
        ELSE part

split(var, all, template, label) ==
    IF var = "app" THEN split_app(all, template, label)
    ELSE split_cli(all, template, label)

\* the whole run: read the source, extract, split, reorder
CallMain ==
    /\ pc = "main"
    /\ LET src == read_source(raw)
           all == extract_fields(variant, src)
       IN  /\ hdr' = detect_header_row(raw, DefaultMaxRows)
           /\ df_src' = src
           /\ df_all' = all
           /\ IF ApplyRaised(all)
              THEN /\ pc' = "raised"
                   /\ UNCHANGED <<male_df, female_df>>
              ELSE /\ pc' = "done"
                   /\ male_df' = split(variant, all, tpl, Male)
                   /\ female_df' = split(variant, all, tpl, Female)
    /\ UNCHANGED <<variant, id_number, gender, doc_type, raw, max_rows, tpl>>

NextPipeline == CallMain

(***************************************************************************)
(* Runs of the whole program on enumerated source sheets.                  *)
(***************************************************************************)
\* an 18-character national id of a man and of a woman, a 15-digit id of a
\* woman, a mobile number, two names (张三, 李三)
ID_M == Rep("1", 16) \o <<"7", "X">>
ID_F == Rep("1", 16) \o <<"2", "8">>
ID15_F == Rep("1", 13) \o <<"4", "1">>
PHONE == <<"1", "3">> \o Rep("8", 9)
NAME_Z == <<"U5F20", "U4E09">>
NAME_L == <<"U674E", "U4E09">>

\* most data rows of a sheet enumerated for extraction
MaxDataRows == 2

\* header rows of two cells:
\*   '证件号' | '姓名'
\*   '身份证号' | '证件号'
\*   'x' | 'y'
\*   '性别' | '证件号'
\*   '证件类型' | '身份证号'
\*   (blank) | '手机号'
\*   '电话' | '手机号'
\*   '姓名' | 'y'
\*   ' 性别' | 'y'
HeaderPool ==
    { <<Str(<<"U8BC1", "U4EF6", "U53F7">>), Str(<<"U59D3", "U540D">>)>>,
      <<Str(<<"U8EAB", "U4EFD", "U8BC1", "U53F7">>), Str(<<"U8BC1", "U4EF6", "U53F7">>)>>,
      <<Str(<<"x">>), Str(<<"y">>)>>,
      <<Str(<<"U6027", "U522B">>), Str(<<"U8BC1", "U4EF6", "U53F7">>)>>,
      <<Str(<<"U8BC1", "U4EF6", "U7C7B", "U578B">>), Str(<<"U8EAB", "U4EFD", "U8BC1", "U53F7">>)>>,
      <<NaN, Str(<<"U624B", "U673A", "U53F7">>)>>,
      <<Str(<<"U7535", "U8BDD">>), Str(<<"U624B", "U673A", "U53F7">>)>>,
      <<Str(<<"U59D3", "U540D">>), Str(<<"y">>)>>,
      <<Str(<<" ", "U6027", "U522B">>), Str(<<"y">>)>> }

\* the cells of the data rows, first and second column
LeftCells == {NaN, Str(ID_M), Str(ID15_F), Str(PHONE)}
RightCells == {NaN, Str(ID_F), Str(NAME_Z)}

DataRows == {<<a, b>> : a \in LeftCells, b \in RightCells}

\* what precedes the header row: nothing, or a title row ('ab' | blank)
DecorPool ==
    { <<>>,
      << <<Str(<<"a", "b">>), NaN>> >> }

ExtractSheets ==
    {<<>>} \cup
    {decor \o <<header>> \o data :
        decor \in DecorPool, header \in HeaderPool,
        data \in SeqsUpTo(DataRows, MaxDataRows)}

InitExtract ==
    /\ variant \in Variants
    /\ pc = "main"
    /\ raw \in ExtractSheets
    /\ tpl = NoTemplate
    /\ max_rows = DefaultMaxRows
    /\ hdr = 0
    /\ id_number = None
    /\ gender = Pending
    /\ doc_type = Pending
    /\ df_src = NoFrame
    /\ df_all = NoFrame
    /\ male_df = NoFrame
    /\ female_df = NoFrame

SpecExtract == InitExtract /\ [][NextPipeline]_vars

\* most data rows of a sheet enumerated for the split
MaxSplitRows == 3

\* the header rows of the sheets to split
SplitHeaders ==
    { <<Str(<<"U59D3", "U540D">>), Str(<<"U8BC1", "U4EF6", "U53F7">>)>>,
      <<Str(<<"U8EAB", "U4EFD", "U8BC1", "U53F7">>), Str(<<"U90E8", "U95E8">>)>> }

\* the data rows of the sheets to split, for the header 姓名 | 证件号: two
\* men, a woman, and a person without identifier
SplitRows ==
    { <<Str(NAME_Z), Str(ID_M)>>,
      <<Str(NAME_L), Str(ID_M)>>,
      <<Str(NAME_Z), Str(ID_F)>>,
      <<Str(NAME_L), NaN>> }

\* no template, and templates with the header rows
\*   '证件号' | '姓名'
\*   '姓名' | '性别' | 'x'
\*   (no cells)
\*   (blank) | '姓名' | '姓名'
\*   '体检卡号' | '证件类型' | '手机号'
TemplatePool ==
    { NoTemplate,
      [given |-> TRUE, header |-> <<Str(<<"U8BC1", "U4EF6", "U53F7">>), Str(<<"U59D3", "U540D">>)>>],
      [given |-> TRUE, header |-> <<Str(<<"U59D3", "U540D">>), Str(<<"U6027", "U522B">>), Str(<<"x">>)>>],
      [given |-> TRUE, header |-> <<>>],
      [given |-> TRUE, header |-> <<NaN, Str(<<"U59D3", "U540D">>), Str(<<"U59D3", "U540D">>)>>],
      [given |-> TRUE, header |-> <<Str(<<"U4F53", "U68C0", "U5361", "U53F7">>), Str(<<"U8BC1", "U4EF6", "U7C7B", "U578B">>), Str(<<"U624B", "U673A", "U53F7">>)>>] }

SplitSheets ==
    {<<header>> \o data :
        header \in SplitHeaders, data \in SeqsUpTo(SplitRows, MaxSplitRows)}

InitSplit ==
    /\ variant \in Variants
    /\ pc = "main"
    /\ raw \in SplitSheets
    /\ tpl \in TemplatePool
    /\ max_rows = DefaultMaxRows
    /\ hdr = 0
    /\ id_number = None
    /\ gender = Pending
    /\ doc_type = Pending
    /\ df_src = NoFrame
    /\ df_all = NoFrame
    /\ male_df = NoFrame
    /\ female_df = NoFrame

SpecSplit == InitSplit /\ [][NextPipeline]_vars

(***************************************************************************)
(* Claims about the classifiers (SpecClassify)                             *)
(***************************************************************************)
OddDigits == {"1", "3", "5", "7", "9"}
HMLetters == {"H", "M", "h", "m"}

\* t is c followed by digits only, Len(t) - 1 of them
LeadThenDigits(t, first) ==
    Len(t) >= 1 /\ t[1] \in first /\ \A i \in 2..Len(t) : t[i] \in Digits

OnlyDigits(t) == \A i \in 1..Len(t) : t[i] \in Digits

RuleNationalID(t) ==
    \/ Len(t) = 15 /\ OnlyDigits(t)
    \/ /\ Len(t) = 18
       /\ OnlyDigits(SubSeq(t, 1, 17))
       /\ t[18] \in Digits \cup {"X", "x"}

RulePassport(t) == Len(t) \in {8, 9} /\ LeadThenDigits(t, Letters)

RuleTravelPermit(t) ==
    \/ Len(t) \in {8, 9, 10} /\ LeadThenDigits(t, HMLetters)
    \/ Len(t) \in {8, 9, 10} /\ OnlyDigits(t)

\* C1 (as claimed): an identifier of one of H, M, h, m followed by 7 to 9
\* digits is classified as travel permit.
C1_HMIsTravelPermit ==
    (/\ doc_type # Pending
     /\ IsStr(id_number)
     /\ Len(id_number.s) \in {8, 9, 10}
     /\ LeadThenDigits(id_number.s, HMLetters))
        => doc_type = Str(TravelPermit)

\* C2: for a string s, parse_gender gives the empty label when s is shorter
\* than 2 characters or its second-to-last character is no decimal digit,
\* otherwise Male for an odd and Female for an even digit, whatever the
\* length or document type of s.
C2_GenderRule ==
    (gender # Pending /\ IsStr(id_number)) =>
        LET s == id_number.s
            k == Len(s)
        IN  IF k < 2 \/ s[k - 1] \notin Digits
            THEN gender = Str(Empty)
            ELSE IF s[k - 1] \in OddDigits
            THEN gender = Str(Male)
            ELSE gender = Str(Female)

\* a passport number (no national id) that was given a gender
C2_Witness ==
    /\ IsStr(id_number)
    /\ doc_type = Str(Passport)
    /\ gender = Str(Female)
    /\ Len(id_number.s) = 8

C4_NonStringIsEmpty ==
    ~IsStr(id_number) =>
        /\ gender \in {Pending, Str(Empty)}
        /\ doc_type \in {Pending, Str(Empty)}

(***************************************************************************)
(* Claims about the header locator (SpecHeader)                            *)
(***************************************************************************)
\* the concatenation of the row's cells, a missing cell as the empty string
RowText(row) ==
    LET RECURSIVE cat(_)
        cat(i) == IF i > Len(row) THEN <<>>
                  ELSE (IF row[i] = NaN THEN <<>> ELSE row[i].s) \o cat(i + 1)
    IN  cat(1)

KeywordSet ==
    { <<"U59D3", "U540D">>, <<"U8BC1", "U4EF6", "U53F7">>,
      <<"U8EAB", "U4EFD", "U8BC1">>, <<"U624B", "U673A", "U53F7">>,
      <<"U7535", "U8BDD">> }

\* some keyword occurs in the text at some offset
TextHasKeyword(text) ==
    \E k \in KeywordSet : \E a \in 1..Len(text) :
        /\ a + Len(k) - 1 <= Len(text)
        /\ \A j \in 1..Len(k) : text[a + j - 1] = k[j]

\* the indices below min(maxScan, number of rows) whose row has a keyword
KeywordRows(rows, limit) ==
    {i \in 0..(Min2(limit, Len(rows)) - 1) : TextHasKeyword(RowText(rows[i + 1]))}

\* C9: detect_header_row returns the smallest index below min(maxScan, rows)
\* whose joined row contains a keyword and 0 when there is none; a keyword
\* row at index maxScan or later is never returned; two keyword-free rows and
\* a keyword in the third give 2.
C9_FirstKeywordRow ==
    pc = "header_done" =>
        LET hits == KeywordRows(raw, max_rows)
        IN  /\ hits = {} => hdr = 0
            /\ hits # {} => hdr \in hits /\ \A i \in hits : hdr <= i
            /\ hdr < max_rows \/ hdr = 0
            /\ (/\ Len(raw) >= 3
                /\ max_rows >= 3
                /\ ~TextHasKeyword(RowText(raw[1]))
                /\ ~TextHasKeyword(RowText(raw[2]))
                /\ TextHasKeyword(RowText(raw[3]))) => hdr = 2

\* two keyword-free rows, a keyword row third and the answer 2; and a table
\* whose only keyword row lies at index maxScan, answered by 0
C9_Witness ==
    /\ pc = "header_done"
    /\ Len(raw) >= 3
    /\ max_rows = DefaultMaxRows
    /\ hdr = 2
    /\ raw[3] = <<Str(<<"U59D3">>), Str(<<"U540D">>)>>

C9_WitnessBeyondLimit ==
    /\ pc = "header_done"
    /\ Len(raw) = DefaultMaxRows + 1
    /\ max_rows = DefaultMaxRows
    /\ TextHasKeyword(RowText(raw[DefaultMaxRows + 1]))
    /\ hdr = 0

(***************************************************************************)
(* Claims about extraction (SpecExtract)                                   *)
(***************************************************************************)
\* the label the document-type rules give a trimmed identifier
RuleDocType(t) ==
    IF RuleNationalID(t) THEN NationalID
    ELSE IF RulePassport(t) THEN Passport
    ELSE IF RuleTravelPermit(t) THEN TravelPermit
    ELSE Empty

\* the label the gender rule gives an identifier
RuleGender(s) ==
    IF Len(s) < 2 \/ s[Len(s) - 1] \notin Digits THEN Empty
    ELSE IF s[Len(s) - 1] \in OddDigits THEN Male
    ELSE Female

\* the aliases of a field, in priority order, in the running program
AliasesOf(f) ==
    CASE f = F_Name -> IF variant = "app" THEN mapping_name ELSE name_map_name
      [] f = F_Id -> IF variant = "app" THEN mapping_id ELSE name_map_id
      [] f = F_Phone -> IF variant = "app" THEN mapping_phone ELSE name_map_phone
      [] f = F_Org -> IF variant = "app" THEN mapping_org ELSE <<>>
      [] f = F_Card -> IF variant = "app" THEN mapping_card ELSE <<>>

\* the first alias of f, in alias order, that is a column of the source table
AliasColumn(f) ==
    LET al == AliasesOf(f)
        present == {j \in 1..Len(al) : \E k \in 1..Len(df_src.cols) : df_src.cols[k] = al[j]}
    IN  IF present = {} THEN NoCol
        ELSE al[CHOOSE j \in present : \A k \in present : j <= k]

Is18(s) ==
    /\ Len(s) = 18
    /\ \A i \in 1..17 : s[i] \in Digits
    /\ s[18] \in Digits \cup {"X", "x"}

Is15(s) == Len(s) = 15 /\ \A i \in 1..15 : s[i] \in Digits

IsMobile(s) ==
    /\ Len(s) = 11
    /\ s[1] = "1"
    /\ s[2] \in {"3", "4", "5", "6", "7", "8", "9"}
    /\ \A i \in 3..11 : s[i] \in Digits

IsCJKName(s) == Len(s) \in {2, 3, 4} /\ \A i \in 1..Len(s) : s[i] \in CJK

\* the fallback pattern of a field as the claim gives it, and as the
\* programs have it (streamlit_app.py also takes 15 digits as identifier)
PatternClaimed(f, s) ==
    CASE f = F_Id -> Is18(s)
      [] f = F_Phone -> IsMobile(s)
      [] f = F_Name -> IsCJKName(s)

PatternAmended(f, s) ==
    CASE f = F_Id -> Is18(s) \/ (variant = "app" /\ Is15(s))
      [] f = F_Phone -> IsMobile(s)
      [] f = F_Name -> IsCJKName(s)

\* the columns the fallback looks at: all of them as claimed; without the
\* columns named '性别' (blanks around it ignored) in streamlit_app.py
CandidatesClaimed == df_src.cols

CandidatesAmended ==
    IF variant = "app"
    THEN SelectSeq(df_src.cols, LAMBDA c : Strip(c) # F_Gender)
    ELSE df_src.cols

PresentRows(c) == {i \in 1..Len(df_src.rows) : df_src.rows[i].vals[c] # NaN}

\* the first candidate with a non-missing value of whose non-missing values
\* at least half match
FallbackColumn(f, cand, amended) ==
    LET hits(c) == {i \in PresentRows(c) :
                      IF amended THEN PatternAmended(f, df_src.rows[i].vals[c].s)
                      ELSE PatternClaimed(f, df_src.rows[i].vals[c].s)}
        ok == {j \in 1..Len(cand) :
                 /\ PresentRows(cand[j]) # {}
                 /\ 2 * Cardinality(hits(cand[j])) >= Cardinality(PresentRows(cand[j]))}
    IN  IF ok = {} THEN NoCol
        ELSE cand[CHOOSE j \in ok : \A k \in ok : j <= k]

\* the column that supplies f: its alias column, and the fallback column
\* when there is no alias column or it is '' in every row
SupplyingColumn(f, cand, amended) ==
    LET a == AliasColumn(f)
    IN  IF a # NoCol /\ ~(\A i \in 1..Len(df_src.rows) : df_src.rows[i].vals[a] = Str(Empty))
        THEN a
        ELSE FallbackColumn(f, cand, amended)

\* the records of f carry the non-missing cells of column c, and are ''
\* in every row when there is no column
SuppliedBy(f, c) ==
    /\ Len(df_all.rows) = Len(df_src.rows)
    /\ \A i \in 1..Len(df_all.rows) :
          IF c = NoCol
          THEN df_all.rows[i].vals[f] = Str(Empty)
          ELSE df_src.rows[i].vals[c] # NaN
                  => df_all.rows[i].vals[f] = df_src.rows[i].vals[c]

SourceFields == IF variant = "app" THEN {F_Name, F_Id, F_Phone, F_Org, F_Card}
                ELSE {F_Name, F_Id, F_Phone}

\* C5 (as claimed): every cell of the canonical table is a string; a source
\* cell missing in the column that supplies a field is the empty string in the
\* record; a field without a column is the empty string in every record.
C5_MissingIsEmptyString ==
    pc = "done" =>
        /\ \A i \in 1..Len(df_all.rows) : \A c \in Range(df_all.cols) :
              df_all.rows[i].vals[c].kind = "str"
        /\ \A f \in SourceFields :
              LET a == AliasColumn(f)
              IN  \A i \in 1..Len(df_all.rows) :
                     /\ (a # NoCol /\ df_src.rows[i].vals[a] = NaN)
                           => df_all.rows[i].vals[f] = Str(Empty)
                     /\ (f \in {F_Org, F_Card} /\ a = NoCol)
                           => df_all.rows[i].vals[f] = Str(Empty)

\* C6: one canonical record per data row of the source, in source order,
\* and in every record the document type and the gender are the labels the
\* rules give the record's identifier, also when the source has its own
\* column '性别' or '证件类型'.
C6_DerivedFromIdentifier ==
    pc = "done" =>
        /\ Len(df_all.rows) = (IF Len(raw) = 0 THEN 0 ELSE Len(raw) - hdr - 1)
        /\ \A i \in 1..Len(df_all.rows) :
              LET r == df_all.rows[i]
              IN  /\ r.idx = i - 1
                  /\ r.vals[F_Id].kind = "str"
                  /\ r.vals[F_DocType] = Str(RuleDocType(Strip(r.vals[F_Id].s)))
                  /\ r.vals[F_Gender] = Str(RuleGender(r.vals[F_Id].s))
                  \* record i is data row i of the sheet: it carries the
                  \* cells of that row in the alias columns
                  /\ \A f \in {F_Name, F_Id, F_Phone} :
                        \A k \in 1..Len(df_src.cols) :
                            (/\ df_src.cols[k] = AliasColumn(f)
                             /\ raw[hdr + 1 + i][k] # NaN)
                                => r.vals[f] = raw[hdr + 1 + i][k]

\* a source with its own '性别' column whose cell differs from the gender
\* derived from the identifier of the same row
C6_Witness ==
    /\ pc = "done"
    /\ \E k \in 1..Len(df_src.cols) : df_src.cols[k] = F_Gender
    /\ Len(df_all.rows) = 2
    /\ df_all.rows[2].vals[F_Gender] = Str(Female)
    /\ df_all.rows[2].vals[F_DocType] = Str(NationalID)
    /\ df_src.rows[2].vals[F_Gender] = Str(ID_M)

\* C10 (as claimed): name, identifier and phone are supplied by the first
\* alias present; the fallback is used only without alias column or when it is
\* '' in every row, and picks the first column in the table's order with a
\* non-missing value and at least half of them matching the field's pattern
\* (identifier: 17 digits and one digit/X/x); else the field is '' throughout.
C10_ResolutionClaimed ==
    pc = "done" =>
        \A f \in {F_Name, F_Id, F_Phone} :
            SuppliedBy(f, SupplyingColumn(f, CandidatesClaimed, FALSE))

\* C10 (amended): the same, where in streamlit_app.py the identifier pattern
\* also takes exactly 15 digits and the columns named '性别' are no candidates.
C10_ResolutionAmended ==
    pc = "done" =>
        \A f \in {F_Name, F_Id, F_Phone} :
            SuppliedBy(f, SupplyingColumn(f, CandidatesAmended, TRUE))

\* no alias for the identifier; half of the first column and all of the
\* second match, and the identifier is taken from the first
C10_Witness ==
    /\ pc = "done"
    /\ AliasColumn(F_Id) = NoCol
    /\ Len(df_src.rows) = 2
    /\ Len(df_src.cols) = 2
    /\ Col(df_src, df_src.cols[1]) = <<Str(ID_M), Str(PHONE)>>
    /\ Col(df_src, df_src.cols[2]) = <<Str(ID_F), Str(ID_F)>>
    /\ Col(df_all, F_Id) = <<Str(ID_M), Str(PHONE)>>

(***************************************************************************)
(* Claims about the split and the column order (SpecSplit)                 *)
(***************************************************************************)
\* the positions of the output rows that carry the index label k
RowsOf(df, k) == {j \in 1..Len(df.rows) : df.rows[j].idx = k}

\* the rows of an output keep the relative order of the canonical table
InSourceOrder(df) ==
    \A a, b \in 1..Len(df.rows) : a < b => df.rows[a].idx < df.rows[b].idx

\* C7: a record with gender Male is exactly once in the male output and not
\* in the female one, a record with gender Female exactly once in the female
\* output and not in the male one, a record with empty gender in neither;
\* each output keeps the relative order of the canonical table.
C7_Partition ==
    pc = "done" =>
        /\ \A i \in 1..Len(df_all.rows) :
              LET r == df_all.rows[i]
                  m == Cardinality(RowsOf(male_df, r.idx))
                  f == Cardinality(RowsOf(female_df, r.idx))
              IN  /\ r.vals[F_Gender] = Str(Male) => m = 1 /\ f = 0
                  /\ r.vals[F_Gender] = Str(Female) => m = 0 /\ f = 1
                  /\ r.vals[F_Gender] = Str(Empty) => m = 0 /\ f = 0
                  /\ r.vals[F_Gender] \in {Str(Male), Str(Female), Str(Empty)}
        /\ \A j \in 1..Len(male_df.rows) :
              \E i \in 1..Len(df_all.rows) : df_all.rows[i].idx = male_df.rows[j].idx
        /\ \A j \in 1..Len(female_df.rows) :
              \E i \in 1..Len(df_all.rows) : df_all.rows[i].idx = female_df.rows[j].idx
        /\ InSourceOrder(male_df)
        /\ InSourceOrder(female_df)

\* a man, a person without gender, a man: the male output holds the first
\* and the third record, the female output nothing
C7_Witness ==
    /\ pc = "done"
    /\ Len(df_all.rows) = 3
    /\ df_all.rows[1].vals[F_Gender] = Str(Male)
    /\ df_all.rows[2].vals[F_Gender] = Str(Empty)
    /\ df_all.rows[3].vals[F_Gender] = Str(Male)
    /\ Len(male_df.rows) = 2
    /\ male_df.rows[1].idx = 0
    /\ male_df.rows[2].idx = 2
    /\ female_df.rows = <<>>

\* the record of the canonical table with index label k
RecordOf(k) == df_all.rows[CHOOSE i \in 1..Len(df_all.rows) : df_all.rows[i].idx = k]

\* the output has exactly the columns `order`, in that order; a column that
\* is among `carried` has the canonical table's value in every row, any
\* other column is '' in every row
HasColumns(df, order, carried) ==
    /\ df.cols = order
    /\ \A j \in 1..Len(df.rows) :
          /\ DOMAIN df.rows[j].vals = Range(order)
          /\ \A k \in 1..Len(order) :
                df.rows[j].vals[order[k]] =
                    IF order[k] \in carried
                    THEN RecordOf(df.rows[j].idx).vals[order[k]]
                    ELSE Str(Empty)

\* the labels of the template's header row
TemplateOrder == ColumnNames(tpl.header)

\* 姓名, 证件类型, 证件号, 手机号, 所属组织/部门, 体检卡号
DefaultOrder == <<F_Name, F_DocType, F_Id, F_Phone, F_Org, F_Card>>

\* C8 (as claimed): each output has exactly the columns of the requested
\* order, the template's header if there is a template, otherwise the default
\* order; a requested column of the canonical table carries its values, a
\* requested column absent from it is '' in every row, other columns go.
C8_RequestedColumns ==
    pc = "done" =>
        LET order == IF tpl.given THEN TemplateOrder ELSE DefaultOrder
        IN  /\ HasColumns(male_df, order, Range(df_all.cols))
            /\ HasColumns(female_df, order, Range(df_all.cols))

\* C8 (amended): as claimed in streamlit_app.py.  In part_000 the gender
\* column is removed before the columns are ordered, so a requested column
\* '性别' is '' in every row, and without a template the outputs keep the
\* columns 姓名, 证件号, 手机号, 证件类型 of the canonical table in this order.
C8_ColumnsAmended ==
    pc = "done" =>
        LET order == IF tpl.given THEN TemplateOrder
                     ELSE IF variant = "app" THEN DefaultOrder
                     ELSE <<F_Name, F_Id, F_Phone, F_DocType>>
            carried == IF variant = "app" THEN Range(df_all.cols)
                       ELSE Range(df_all.cols) \ {F_Gender}
        IN  /\ HasColumns(male_df, order, carried)
            /\ HasColumns(female_df, order, carried)

\* a template asking for 姓名, 性别 and a column the canonical table lacks,
\* and a man and a woman in the outputs
C8_Witness ==
    /\ pc = "done"
    /\ tpl.given
    /\ TemplateOrder = <<F_Name, F_Gender, <<"x">> >>
    /\ Len(male_df.rows) >= 1
    /\ Len(female_df.rows) >= 1
    /\ male_df.rows[1].vals[<<"x">>] = Str(Empty)
    /\ male_df.rows[1].vals[F_Name] = Str(NAME_Z)

====
